---- MODULE Spec2Model ----
(***************************************************************************)
(* Connection lifecycle of src/api/external.ts: the three non-singleton    *)
(* connection managers S3Connection, FTPConnection and SFTPConnection,     *)
(* the config objects they hold by reference, the driver clients they own, *)
(* and the asynchronous connect()/disconnect() calls in flight.            *)
(***************************************************************************)
EXTENDS Integers, Sequences, FiniteSets, TLC

\* ------------------------------------------------------------------ bounds
\* Total number of operations (constructions, calls, completions, caller
\* writes) in one behaviour.
MaxSteps == 7

\* The same, in the behaviours with two managers.
MaxPairSteps == 5

\* ------------------------------------------------------------- JS values
\* A JavaScript value: undefined, a number, a string, a boolean, or a
\* reference to a heap object.
Undef == [t |-> "undef", n |-> 0, s |-> ""]
Num(k) == [t |-> "num", n |-> k, s |-> ""]
Str(x) == [t |-> "str", n |-> 0, s |-> x]
Bool(b) == [t |-> "bool", n |-> IF b THEN 1 ELSE 0, s |-> ""]
Ref(r) == [t |-> "ref", n |-> r, s |-> ""]

\* JavaScript truthiness, as the || operator tests it.
Falsy(v) ==
  \/ v.t = "undef"
  \/ v.t = "num" /\ v.n = 0
  \/ v.t = "str" /\ v.s = ""
  \/ v.t = "bool" /\ v.n = 0

\* a || b
Or(a, b) == IF Falsy(a) THEN b ELSE a

\* --------------------------------------------------------------- classes
Classes == {"S3", "FTP", "SFTP"}

\* The instance slots of the calling program; each holds at most one
\* manager, of any class.
Instances == {"a", "b"}

\* The one field of each config type that can hold an object: the
\* credential pair, the TLS options, the private key Buffer.
NestedField(k) ==
  CASE k = "S3" -> "credentials"
    [] k = "FTP" -> "secureOptions"
    [] k = "SFTP" -> "privateKey"

\* The field of each config type that is not optional.
RequiredField(k) ==
  CASE k = "S3" -> "region"
    [] k = "FTP" -> "host"
    [] k = "SFTP" -> "host"

\* The nested object the sample configs carry.
NestedObject(k) ==
  CASE k = "S3" -> [accessKeyId |-> Str("YOUR_KEY"), secretAccessKey |-> Str("YOUR_SECRET")]
    [] k = "FTP" -> [rejectUnauthorized |-> Bool(TRUE)]
    [] k = "SFTP" -> [bytes |-> Str("KEY")]

\* Config literals a caller passes to a constructor: each class with every
\* optional field absent, with falsy optional fields, and with every field
\* of interest supplied; plus one without the first (required) field.  The
\* nested field is filled in by the caller when the literal has an object.
S3Configs ==
  { [region |-> Str("us-east-1"), credentials |-> Undef, endpoint |-> Undef, forcePathStyle |-> Undef],
    [region |-> Str("us-east-1"), credentials |-> Ref(0), endpoint |-> Undef, forcePathStyle |-> Undef],
    [region |-> Undef, credentials |-> Undef, endpoint |-> Undef, forcePathStyle |-> Undef] }

FTPConfigs ==
  { [host |-> Str("ftp.example.com"), port |-> Undef, user |-> Undef, password |-> Undef,
     secure |-> Undef, secureOptions |-> Undef],
    [host |-> Str("ftp.example.com"), port |-> Num(0), user |-> Str(""), password |-> Undef,
     secure |-> Undef, secureOptions |-> Undef],
    [host |-> Str("ftp.example.com"), port |-> Num(2121), user |-> Str("username"),
     password |-> Str("password"), secure |-> Bool(TRUE), secureOptions |-> Ref(0)],
    [host |-> Undef, port |-> Undef, user |-> Undef, password |-> Undef,
     secure |-> Undef, secureOptions |-> Undef] }

SFTPConfigs ==
  { [host |-> Str("sftp.example.com"), port |-> Undef, username |-> Undef, password |-> Undef,
     privateKey |-> Undef, passphrase |-> Undef],
    [host |-> Str("sftp.example.com"), port |-> Num(0), username |-> Str("user"),
     password |-> Str("pass"), privateKey |-> Undef, passphrase |-> Undef],
    [host |-> Str("sftp.example.com"), port |-> Num(2222), username |-> Str("other_user"),
     password |-> Undef, privateKey |-> Ref(0), passphrase |-> Undef],
    [host |-> Undef, port |-> Undef, username |-> Undef, password |-> Undef,
     privateKey |-> Undef, passphrase |-> Undef] }

ConfigsOf(k) ==
  CASE k = "S3" -> S3Configs
    [] k = "FTP" -> FTPConfigs
    [] k = "SFTP" -> SFTPConfigs

\* ---------------------------------------------------------------- errors
\* A thrown value: an Error object (isError) with its message, or any other
\* value, of which only String(value) is kept in message.  A message is the
\* sequence of the strings concatenated into it.  code stands for whatever
\* else the driver's own error carries.
NoError == [isError |-> FALSE, message |-> <<>>, code |-> ""]
DriverErrors ==
  { [isError |-> TRUE, message |-> <<"connect ECONNREFUSED">>, code |-> "ECONNREFUSED"],
    [isError |-> FALSE, message |-> <<"timeout">>, code |-> ""] }

\* new Error(`${prefix}${error instanceof Error ? error.message : String(error)}`)
WrapError(prefix, error) ==
  [isError |-> TRUE, message |-> <<prefix>> \o error.message, code |-> ""]

VARIABLES
  slots,           \* the instance slots the calling program uses
  heap,            \* the objects of the program, by reference 1..Len(heap)
  driver,          \* the driver clients created so far, by handle 1..Len(driver)
  class,           \* class[i]: the class of the manager in slot i, or "none"
  config,          \* this.config: a reference into heap (0: no manager)
  client,          \* this.client: a handle into driver (0: no manager)
  connected,       \* this.connected
  callerConfig,    \* the reference the caller passed to the constructor
  returnedConfig,  \* the reference the latest getConfig() returned (0: none)
  pendingConnect,  \* connect() calls suspended in await client.access/connect
  pendingEnd,      \* disconnect() calls suspended in await client.end()
  atConstruction,  \* the config's value when the constructor ran
  disconnected,    \* a disconnect() has taken the manager from connected to not
  failed,          \* the latest connect() to settle threw, and none returned since
  calls,           \* what is remembered of each suspended connect() call
  settled,         \* what was remembered of the connect() call that settled last
  last,            \* the operation that made the latest step, and its outcome
  steps            \* operations so far

vars ==
  <<slots, heap, driver, class, config, client, connected, callerConfig, returnedConfig,
    pendingConnect, pendingEnd, atConstruction, disconnected, failed, calls, settled,
    last, steps>>

\* ------------------------------------------------------------------ heap
\* The value of a field with a reference followed: what a reader of the
\* object sees.
Deref(h, v) == IF v.t = "ref" THEN <<"object", h[v.n]>> ELSE <<"value", v>>

\* The value of object r with its nested objects followed.
DeepValue(h, r) == [f \in DOMAIN h[r] |-> Deref(h, h[r][f])]

NoValue == [none |-> <<"value", Undef>>]

\* The heap after the caller has evaluated the config literal lit of class
\* k: its nested object first, if it has one, then the config object itself,
\* which is the last object of the result.
AllocateLiteral(h, k, lit) ==
  IF lit[NestedField(k)].t = "ref"
  THEN h \o << NestedObject(k), [lit EXCEPT ![NestedField(k)] = Ref(Len(h) + 1)] >>
  ELSE Append(h, lit)

\* --------------------------------------------------------------- drivers
\* A driver client (S3Client, ftp.Client, SFTPClient): the options its
\* latest constructor/handshake call was given, the handshakes started on
\* it (client.access, client.connect) and the teardown calls made on it
\* (destroy, close, end).
NewDriver(k, args) == [class |-> k, args |-> args, handshakes |-> 0, teardowns |-> 0]

Handshake(d, args) == [d EXCEPT !.args = args, !.handshakes = @ + 1]

Teardown(d) == [d EXCEPT !.teardowns = @ + 1]

\* ------------------------------------------------------------------ last
NoInstance == "none"

\* op: the operation ("x:call" when the call suspended, "x:settled" when a
\* suspended call resumed and finished, "x" when it ran to its end at once);
\* ok, ret, err: whether it returned, the value returned, the value thrown;
\* cause: the value the driver rejected with, if it did; before:
\* this.connected when the step began.
Outcome(op, i, ok, ret, err, cause, before) ==
  [op |-> op, i |-> i, ok |-> ok, ret |-> ret, err |-> err, cause |-> cause,
   before |-> before]

Returned(op, i, ret) == Outcome(op, i, TRUE, ret, NoError, NoError, connected[i])

Threw(op, i, err, cause) == Outcome(op, i, FALSE, Undef, err, cause, connected[i])

\* What is remembered of a connect() call from its start to its end: retry,
\* whether it was called on a manager whose latest connect() had failed;
\* stale, whether a disconnect() has returned since it was called.
Call(retry, stale) == [retry |-> retry, stale |-> stale]

NoCall == Call(FALSE, FALSE)

\* The sequence q without its element at c.
Without(q, c) == SubSeq(q, 1, c - 1) \o SubSeq(q, c + 1, Len(q))

\* The suspended calls q once a disconnect() has returned.
AllStale(q) == [c \in DOMAIN q |-> Call(q[c].retry, TRUE)]

\* The number of operations a behaviour may take.
StepLimit == IF Cardinality(slots) = 1 THEN MaxSteps ELSE MaxPairSteps

\* Managers are constructed in the order of their names: which of two
\* variables holds the first manager makes no difference to either.
InOrder(i) == i = "b" => class["a"] # "none"

InitWith(used) ==
  /\ slots = used
  /\ heap = <<>>
  /\ driver = <<>>
  /\ class = [i \in Instances |-> "none"]
  /\ config = [i \in Instances |-> 0]
  /\ client = [i \in Instances |-> 0]
  /\ connected = [i \in Instances |-> FALSE]
  /\ callerConfig = [i \in Instances |-> 0]
  /\ returnedConfig = [i \in Instances |-> 0]
  /\ pendingConnect = [i \in Instances |-> 0]
  /\ pendingEnd = [i \in Instances |-> 0]
  /\ atConstruction = [i \in Instances |-> NoValue]
  /\ disconnected = [i \in Instances |-> FALSE]
  /\ failed = [i \in Instances |-> FALSE]
  /\ calls = [i \in Instances |-> <<>>]
  /\ settled = NoCall
  /\ last = Outcome("none", NoInstance, TRUE, Undef, NoError, NoError, FALSE)
  /\ steps = 0

\* A program with one manager, and one with two.
Init == InitWith({"a"})

InitPair == InitWith(Instances)

\* ---------------------------------------------------------- constructors
\* The options object the S3 constructor hands to new S3Client.
S3ClientConfig(c) ==
  [region |-> c.region, credentials |-> c.credentials, endpoint |-> c.endpoint,
   forcePathStyle |-> c.forcePathStyle]

\* An S3 constructor that leaves this.connected at its initializer's value.
S3ConstructorLeavesFlag == FALSE

\* The value of this.connected when each constructor returns.
S3ConstructorConnected == TRUE

FTPConstructorConnected == FALSE

SFTPConstructorConnected == FALSE

\* The driver client each constructor creates, given the heap h that holds
\* the config object r.
S3ConstructorClient(h, r) ==
  NewDriver("S3", [f \in DOMAIN S3ClientConfig(h[r]) |-> Deref(h, S3ClientConfig(h[r])[f])])

FTPConstructorClient(h, r) == NewDriver("FTP", NoValue)

SFTPConstructorClient(h, r) == NewDriver("SFTP", NoValue)

ConstructorClient(k, h, r) ==
  CASE k = "S3" -> S3ConstructorClient(h, r)
    [] k = "FTP" -> FTPConstructorClient(h, r)
    [] k = "SFTP" -> SFTPConstructorClient(h, r)

ConstructorConnected(k) ==
  CASE k = "S3" -> S3ConstructorConnected
    [] k = "FTP" -> FTPConstructorConnected
    [] k = "SFTP" -> SFTPConstructorConnected

\* The object a constructor stores in this.config: the caller's own object.
StoredConfig(h, r) == r

\* Constructors that keep one driver client per class: a second manager of
\* a class takes the client of the first.
ConstructSingleton(i, k, lit) ==
  LET h == AllocateLiteral(heap, k, lit)
      r == Len(h)
      same == {j \in Instances : class[j] = k}
  IN /\ steps < StepLimit
     /\ i \in slots
     /\ class[i] = "none"
     /\ InOrder(i)
     /\ heap' = h
     /\ callerConfig' = [callerConfig EXCEPT ![i] = r]
     /\ config' = [config EXCEPT ![i] = StoredConfig(h, r)]
     /\ IF same = {}
        THEN /\ driver' = Append(driver, ConstructorClient(k, h, r))
             /\ client' = [client EXCEPT ![i] = Len(driver) + 1]
        ELSE /\ driver' = driver
             /\ client' = [client EXCEPT ![i] = client[CHOOSE j \in same : TRUE]]
     /\ connected' = [connected EXCEPT ![i] = ConstructorConnected(k)]
     /\ class' = [class EXCEPT ![i] = k]
     /\ atConstruction' = [atConstruction EXCEPT ![i] = DeepValue(h, r)]
     /\ last' = Outcome("new", i, TRUE, Undef, NoError, NoError, FALSE)
     /\ steps' = steps + 1
     /\ UNCHANGED <<failed, calls, settled, slots, returnedConfig, pendingConnect,
                    pendingEnd, disconnected>>

\* new S3Connection(lit), new FTPConnection(lit), new SFTPConnection(lit) in
\* slot i: the caller evaluates the literal, the constructor stores the
\* reference, creates its driver client and sets this.connected.
Construct(i, k, lit) ==
  LET h == AllocateLiteral(heap, k, lit)
      r == Len(h)
  IN /\ steps < StepLimit
     /\ i \in slots
     /\ class[i] = "none"
     /\ InOrder(i)
     /\ heap' = h
     /\ callerConfig' = [callerConfig EXCEPT ![i] = r]
     /\ config' = [config EXCEPT ![i] = StoredConfig(h, r)]
     /\ driver' = Append(driver, ConstructorClient(k, h, r))
     /\ client' = [client EXCEPT ![i] = Len(driver) + 1]
     /\ connected' = [connected EXCEPT ![i] = ConstructorConnected(k)]
     /\ class' = [class EXCEPT ![i] = k]
     /\ atConstruction' = [atConstruction EXCEPT ![i] = DeepValue(h, r)]
     /\ last' = Outcome("new", i, TRUE, Undef, NoError, NoError, FALSE)
     /\ steps' = steps + 1
     /\ UNCHANGED <<failed, calls, settled, slots, returnedConfig, pendingConnect, pendingEnd, disconnected>>

NewS3Connection(i, lit) == Construct(i, "S3", lit)

NewFTPConnection(i, lit) == Construct(i, "FTP", lit)

NewSFTPConnection(i, lit) == Construct(i, "SFTP", lit)

\* ------------------------------------------------- getClient, isConnected
\* The value a handle is returned as.
Handle(c) == [t |-> "client", n |-> c, s |-> ""]

NotConnectedError(k) ==
  [isError |-> TRUE,
   message |-> CASE k = "S3" -> <<"S3 connection not initialized">>
                 [] k = "FTP" -> <<"FTP not connected. Call connect() first.">>
                 [] k = "SFTP" -> <<"SFTP not connected. Call connect() first.">>,
   code |-> ""]

\* getClient() of each class: whether it returns this.client (TRUE) or
\* throws.
S3GetClientReturns(i) == connected[i]

\* A getClient() that tests this.client, as S3 disconnect() does, instead of
\* this.connected.
GetClientTestsClient(i) == client[i] # 0

FTPGetClientReturns(i) == connected[i]

SFTPGetClientReturns(i) == connected[i]

GetClientReturns(i) ==
  CASE class[i] = "S3" -> S3GetClientReturns(i)
    [] class[i] = "FTP" -> FTPGetClientReturns(i)
    [] class[i] = "SFTP" -> SFTPGetClientReturns(i)

\* The outcome of getClient() in the current state.
GetClientOutcome(i) ==
  IF GetClientReturns(i)
  THEN Returned("getClient", i, Handle(client[i]))
  ELSE Threw("getClient", i, NotConnectedError(class[i]), NoError)

\* A getClient() that also repairs the flag from the handle it holds.
GetClientSetsFlag(i) ==
  /\ steps < StepLimit
  /\ class[i] # "none"
  /\ last' = GetClientOutcome(i)
  /\ connected' = [connected EXCEPT ![i] = client[i] # 0]
  /\ steps' = steps + 1
  /\ UNCHANGED <<failed, calls, settled, slots, heap, driver, class, config, client, callerConfig,
                 returnedConfig, pendingConnect, pendingEnd, atConstruction, disconnected>>

GetClient(i) ==
  /\ steps < StepLimit
  /\ class[i] # "none"
  /\ last' = GetClientOutcome(i)
  /\ steps' = steps + 1
  /\ UNCHANGED <<failed, calls, settled, slots, heap, driver, class, config, client, connected, callerConfig,
                 returnedConfig, pendingConnect, pendingEnd, atConstruction, disconnected>>

IsConnected(i) ==
  /\ steps < StepLimit
  /\ class[i] # "none"
  /\ last' = Returned("isConnected", i, Bool(connected[i]))
  /\ steps' = steps + 1
  /\ UNCHANGED <<failed, calls, settled, slots, heap, driver, class, config, client, connected, callerConfig,
                 returnedConfig, pendingConnect, pendingEnd, atConstruction, disconnected>>

\* -------------------------------------------------------------- getConfig
\* { ...this.config }: a new object with the fields of this.config, each
\* holding the value (for an object, the reference) this.config holds.
SpreadCopy(h, r) == h[r]

GetConfig(i) ==
  /\ steps < StepLimit
  /\ class[i] # "none"
  /\ heap' = Append(heap, SpreadCopy(heap, config[i]))
  /\ returnedConfig' = [returnedConfig EXCEPT ![i] = Len(heap) + 1]
  /\ last' = Returned("getConfig", i, Ref(Len(heap) + 1))
  /\ steps' = steps + 1
  /\ UNCHANGED <<failed, calls, settled, slots, driver, class, config, client, connected, callerConfig,
                 pendingConnect, pendingEnd, atConstruction, disconnected>>

\* ---------------------------------------------------------------- connect
\* The options object FTP connect() hands to client.access.
FTPAccessOptions(c) ==
  [host |-> c.host,
   port |-> Or(c.port, Num(21)),
   user |-> Or(c.user, Str("anonymous")),
   password |-> Or(c.password, Str("")),
   secure |-> Or(c.secure, Bool(FALSE)),
   secureOptions |-> c.secureOptions]

\* The connectConfig object SFTP connect() hands to client.connect.
SFTPConnectConfig(c) ==
  [host |-> c.host,
   port |-> Or(c.port, Num(22)),
   username |-> c.username,
   password |-> c.password,
   privateKey |-> c.privateKey,
   passphrase |-> c.passphrase]

HandshakeOptions(k, c) ==
  CASE k = "FTP" -> FTPAccessOptions(c)
    [] k = "SFTP" -> SFTPConnectConfig(c)

\* Whether connect() goes on to the driver's handshake in the current state:
\* neither class tests anything before it.
FTPConnectStartsHandshake(i) == TRUE

SFTPConnectStartsHandshake(i) == TRUE

ConnectStartsHandshake(i) ==
  CASE class[i] = "FTP" -> FTPConnectStartsHandshake(i)
    [] class[i] = "SFTP" -> SFTPConnectStartsHandshake(i)

\* A connect() that treats a failure as final: a handshake that resolves on
\* a manager whose latest connect() failed leaves it not connected.
ConnectedUnlessFailed(i) == ~failed[i]

\* this.connected after the awaited handshake resolved, and after it
\* rejected.
FTPConnectedAfterResolve(i) == TRUE

SFTPConnectedAfterResolve(i) == TRUE

\* A catch block that leaves this.connected as it was.
ConnectedKeptAfterReject(i) == connected[i]

FTPConnectedAfterReject(i) == FALSE

SFTPConnectedAfterReject(i) == FALSE

ConnectedAfterResolve(i) ==
  CASE class[i] = "FTP" -> FTPConnectedAfterResolve(i)
    [] class[i] = "SFTP" -> SFTPConnectedAfterResolve(i)

ConnectedAfterReject(i) ==
  CASE class[i] = "FTP" -> FTPConnectedAfterReject(i)
    [] class[i] = "SFTP" -> SFTPConnectedAfterReject(i)

\* The error connect() throws when the handshake rejected with error.
FTPConnectError(error) == WrapError("FTP connection failed: ", error)

SFTPConnectError(error) == WrapError("SFTP connection failed: ", error)

ConnectError(k, error) ==
  CASE k = "FTP" -> FTPConnectError(error)
    [] k = "SFTP" -> SFTPConnectError(error)

\* connect() is called: it reads this.config, starts the driver's handshake
\* with the options built from it and suspends in the await.
Connect(i) ==
  /\ steps < StepLimit
  /\ class[i] \in {"FTP", "SFTP"}
  /\ ConnectStartsHandshake(i)
  /\ LET o == HandshakeOptions(class[i], heap[config[i]])
     IN driver' = [driver EXCEPT ![client[i]] =
                     Handshake(@, [f \in DOMAIN o |-> Deref(heap, o[f])])]
  /\ pendingConnect' = [pendingConnect EXCEPT ![i] = @ + 1]
  /\ calls' = [calls EXCEPT ![i] = Append(@, Call(failed[i], FALSE))]
  /\ last' = Returned("connect:call", i, Undef)
  /\ steps' = steps + 1
  /\ UNCHANGED <<failed, settled, slots, heap, class, config, client, connected, callerConfig, returnedConfig,
                 pendingEnd, atConstruction, disconnected>>

\* The handshake of a suspended connect() resolves: the call resumes, sets
\* this.connected and returns.
ConnectResolve(i) ==
  /\ steps < StepLimit
  /\ pendingConnect[i] > 0
  /\ pendingConnect' = [pendingConnect EXCEPT ![i] = @ - 1]
  /\ connected' = [connected EXCEPT ![i] = ConnectedAfterResolve(i)]
  /\ \E c \in DOMAIN calls[i] :
       /\ calls' = [calls EXCEPT ![i] = Without(@, c)]
       /\ settled' = calls[i][c]
  /\ failed' = [failed EXCEPT ![i] = FALSE]
  /\ last' = Returned("connect:settled", i, Undef)
  /\ steps' = steps + 1
  /\ UNCHANGED <<slots, heap, driver, class, config, client, callerConfig, returnedConfig,
                 pendingEnd, atConstruction, disconnected>>

\* The handshake of a suspended connect() rejects with error: the catch
\* block sets this.connected and throws the wrapped error.
ConnectReject(i, error) ==
  /\ steps < StepLimit
  /\ pendingConnect[i] > 0
  /\ pendingConnect' = [pendingConnect EXCEPT ![i] = @ - 1]
  /\ connected' = [connected EXCEPT ![i] = ConnectedAfterReject(i)]
  /\ \E c \in DOMAIN calls[i] :
       /\ calls' = [calls EXCEPT ![i] = Without(@, c)]
       /\ settled' = calls[i][c]
  /\ failed' = [failed EXCEPT ![i] = TRUE]
  /\ last' = Threw("connect:settled", i, ConnectError(class[i], error), error)
  /\ steps' = steps + 1
  /\ UNCHANGED <<slots, heap, driver, class, config, client, callerConfig, returnedConfig,
                 pendingEnd, atConstruction, disconnected>>

\* An S3 disconnect() whose test never passes.
S3DisconnectTestsNothing(i) == FALSE

\* ------------------------------------------------------------- disconnect
\* The test each disconnect() makes before it tears anything down:
\* if (this.client) in S3Connection, if (this.connected) in the other two.
S3DisconnectTest(i) == client[i] # 0

FTPDisconnectTest(i) == connected[i]

SFTPDisconnectTest(i) == connected[i]

\* S3 and FTP disconnect(): no await, the whole body runs in the call.
SyncDisconnect(i, test) ==
  /\ steps < StepLimit
  /\ IF test
     THEN /\ driver' = [driver EXCEPT ![client[i]] = Teardown(@)]
          /\ connected' = [connected EXCEPT ![i] = FALSE]
          /\ disconnected' = [disconnected EXCEPT ![i] = @ \/ connected[i]]
     ELSE UNCHANGED <<driver, connected, disconnected>>
  /\ calls' = [calls EXCEPT ![i] = AllStale(@)]
  /\ last' = Returned("disconnect", i, Undef)
  /\ steps' = steps + 1
  /\ UNCHANGED <<failed, settled, slots, heap, class, config, client, callerConfig,
                 returnedConfig, pendingConnect, pendingEnd, atConstruction>>

S3Disconnect(i) ==
  /\ class[i] = "S3"
  /\ SyncDisconnect(i, S3DisconnectTest(i))

FTPDisconnect(i) ==
  /\ class[i] = "FTP"
  /\ SyncDisconnect(i, FTPDisconnectTest(i))

\* SFTP disconnect() is called: when the test passes it calls client.end()
\* and suspends in the await; otherwise it returns at once.
SFTPDisconnect(i) ==
  /\ steps < StepLimit
  /\ class[i] = "SFTP"
  /\ IF SFTPDisconnectTest(i)
     THEN /\ driver' = [driver EXCEPT ![client[i]] = Teardown(@)]
          /\ pendingEnd' = [pendingEnd EXCEPT ![i] = @ + 1]
          /\ last' = Returned("disconnect:call", i, Undef)
          /\ UNCHANGED calls
     ELSE /\ UNCHANGED <<driver, pendingEnd>>
          /\ calls' = [calls EXCEPT ![i] = AllStale(@)]
          /\ last' = Returned("disconnect", i, Undef)
  /\ steps' = steps + 1
  /\ UNCHANGED <<failed, settled, slots, heap, class, config, client, connected, callerConfig, returnedConfig,
                 pendingConnect, atConstruction, disconnected>>

\* client.end() of a suspended disconnect() resolves: the call resumes and
\* clears this.connected.
SFTPDisconnectResolve(i) ==
  /\ steps < StepLimit
  /\ pendingEnd[i] > 0
  /\ pendingEnd' = [pendingEnd EXCEPT ![i] = @ - 1]
  /\ connected' = [connected EXCEPT ![i] = FALSE]
  /\ disconnected' = [disconnected EXCEPT ![i] = @ \/ connected[i]]
  /\ calls' = [calls EXCEPT ![i] = AllStale(@)]
  /\ last' = Returned("disconnect:settled", i, Undef)
  /\ steps' = steps + 1
  /\ UNCHANGED <<failed, settled, slots, heap, driver, class, config, client, callerConfig, returnedConfig,
                 pendingConnect, atConstruction>>

\* A disconnect() that clears this.connected whether client.end() resolves
\* or rejects, as a finally block would.
SFTPDisconnectRejectClears(i, error) ==
  /\ steps < StepLimit
  /\ pendingEnd[i] > 0
  /\ pendingEnd' = [pendingEnd EXCEPT ![i] = @ - 1]
  /\ connected' = [connected EXCEPT ![i] = FALSE]
  /\ last' = Threw("disconnect:settled", i, error, error)
  /\ steps' = steps + 1
  /\ UNCHANGED <<failed, calls, settled, slots, heap, driver, class, config, client,
                 callerConfig, returnedConfig, pendingConnect, atConstruction,
                 disconnected>>

\* client.end() of a suspended disconnect() rejects: nothing catches the
\* error, so the call throws it as it is and this.connected keeps its value.
SFTPDisconnectReject(i, error) ==
  /\ steps < StepLimit
  /\ pendingEnd[i] > 0
  /\ pendingEnd' = [pendingEnd EXCEPT ![i] = @ - 1]
  /\ last' = Threw("disconnect:settled", i, error, error)
  /\ steps' = steps + 1
  /\ UNCHANGED <<failed, calls, settled, slots, heap, driver, class, config, client, connected, callerConfig,
                 returnedConfig, pendingConnect, atConstruction, disconnected>>

\* ----------------------------------------------------------- the caller
\* What the caller writes into a config object it holds, and into the
\* nested object of one.
CallerWrite(k) ==
  CASE k = "S3" -> <<"region", Str("eu-west-1")>>
    [] k = "FTP" -> <<"host", Str("ftp.another.com")>>
    [] k = "SFTP" -> <<"host", Str("sftp.another.com")>>

CallerNestedWrite(k) ==
  CASE k = "S3" -> <<"accessKeyId", Str("OTHER_KEY")>>
    [] k = "FTP" -> <<"rejectUnauthorized", Bool(FALSE)>>
    [] k = "SFTP" -> <<"bytes", Str("OTHER")>>

\* The config object the caller holds: the one it passed to the constructor
\* or the one the latest getConfig() returned.
Held(i, which) == IF which = "passed" THEN callerConfig[i] ELSE returnedConfig[i]

\* held.field = value
WriteField(i, which) ==
  /\ steps < StepLimit
  /\ Held(i, which) # 0
  /\ heap' = [heap EXCEPT ![Held(i, which)][CallerWrite(class[i])[1]] = CallerWrite(class[i])[2]]
  /\ last' = Returned("write", i, Str(which))
  /\ steps' = steps + 1
  /\ UNCHANGED <<failed, calls, settled, slots, driver, class, config, client, connected, callerConfig, returnedConfig,
                 pendingConnect, pendingEnd, atConstruction, disconnected>>

\* held.nested.field = value
WriteNested(i, which) ==
  /\ steps < StepLimit
  /\ Held(i, which) # 0
  /\ heap[Held(i, which)][NestedField(class[i])].t = "ref"
  /\ heap' = [heap EXCEPT ![heap[Held(i, which)][NestedField(class[i])].n]
                                [CallerNestedWrite(class[i])[1]] = CallerNestedWrite(class[i])[2]]
  /\ last' = Returned("writeNested", i, Str(which))
  /\ steps' = steps + 1
  /\ UNCHANGED <<failed, calls, settled, slots, driver, class, config, client, connected, callerConfig, returnedConfig,
                 pendingConnect, pendingEnd, atConstruction, disconnected>>

\* ---------------------------------------------------------- specification
Next ==
  \/ \E i \in Instances, lit \in S3Configs : NewS3Connection(i, lit)
  \/ \E i \in Instances, lit \in FTPConfigs : NewFTPConnection(i, lit)
  \/ \E i \in Instances, lit \in SFTPConfigs : NewSFTPConnection(i, lit)
  \/ \E i \in Instances : GetClient(i)
  \/ \E i \in Instances : IsConnected(i)
  \/ \E i \in Instances : GetConfig(i)
  \/ \E i \in Instances : Connect(i)
  \/ \E i \in Instances : ConnectResolve(i)
  \/ \E i \in Instances, error \in DriverErrors : ConnectReject(i, error)
  \/ \E i \in Instances : S3Disconnect(i)
  \/ \E i \in Instances : FTPDisconnect(i)
  \/ \E i \in Instances : SFTPDisconnect(i)
  \/ \E i \in Instances : SFTPDisconnectResolve(i)
  \/ \E i \in Instances, error \in DriverErrors : SFTPDisconnectReject(i, error)
  \/ \E i \in Instances, which \in {"passed", "returned"} : WriteField(i, which)
  \/ \E i \in Instances, which \in {"passed", "returned"} : WriteNested(i, which)

Spec == Init /\ [][Next]_vars

SpecPair == InitPair /\ [][Next]_vars


\* ------------------------------------------------------------------ claims
\* The network calls made on the driver client of manager i.
Handshakes(i) == driver[client[i]].handshakes

\* The error of the core's kind HandshakeFailed for class k: the Error
\* connect() builds from what the driver rejected with.
IsHandshakeFailed(k, err) == \E error \in DriverErrors : err = ConnectError(k, error)

\* Whether the manager in slot i was built from a config that had its
\* required field.
WasValid(i) ==
  /\ class[i] # "none"
  /\ atConstruction[i][RequiredField(class[i])] # <<"value", Undef>>

\* C1: getClient() returns the stored handle if and only if this.connected
\* is set; otherwise it throws the class's not-connected error and returns
\* no handle.
C1_GetClientIffConnected ==
  last.op = "getClient" =>
    /\ last.ok <=> connected[last.i]
    /\ last.ok => last.ret = Handle(client[last.i]) /\ last.err = NoError
    /\ ~last.ok => last.ret = Undef /\ last.err = NotConnectedError(class[last.i])

\* getClient() has thrown on a manager that was connected and then
\* disconnected.
C1_Witness == last.op = "getClient" /\ ~last.ok /\ disconnected[last.i]

\* C2: when the handshake of an FTP or SFTP connect() rejects, the call
\* throws the connection-failed error of its class and this.connected is
\* false afterwards, whatever it was before.
C2_HandshakeFailure ==
  (last.op = "connect:settled" /\ last.cause # NoError) =>
    /\ ~last.ok
    /\ IsHandshakeFailed(class[last.i], last.err)
    /\ ~connected[last.i]

\* A handshake has rejected on a manager that was connected.
C2_Witness ==
  last.op = "connect:settled" /\ last.cause # NoError /\ last.before /\ ~last.ok

\* C3: right after an S3 manager is constructed from a config with a region
\* it is connected, getClient() returns, and no handshake was made.
C3_S3ConnectedAtConstruction ==
  (last.op = "new" /\ class[last.i] = "S3" /\ WasValid(last.i)) =>
    /\ connected[last.i]
    /\ GetClientOutcome(last.i).ok
    /\ GetClientOutcome(last.i).ret = Handle(client[last.i])
    /\ Handshakes(last.i) = 0

\* An S3 manager has just been constructed with a region and credentials.
C3_Witness ==
  /\ last.op = "new"
  /\ class[last.i] = "S3"
  /\ heap[config[last.i]].region = Str("us-east-1")
  /\ heap[config[last.i]].credentials.t = "ref"

\* C4: a disconnect() called while the manager is not connected returns
\* without an error, makes no teardown call on the driver and leaves
\* this.connected as it is.
C4_DisconnectNoOpWhenNotConnected ==
  [][(/\ last'.op \in {"disconnect", "disconnect:call"}
      /\ WasValid(last'.i)
      /\ ~connected[last'.i]) =>
       /\ last'.op = "disconnect"
       /\ last'.ok
       /\ driver' = driver
       /\ connected' = connected]_vars

\* C5: once a disconnect() has taken a manager from connected to not
\* connected, no handshake is started on its driver again and it never
\* becomes connected again.
C5_NoConnectAfterDisconnect ==
  [][\A i \in slots :
       (WasValid(i) /\ disconnected[i]) =>
         /\ driver'[client[i]].handshakes = driver[client[i]].handshakes
         /\ ~connected'[i]]_vars

\* C6: connect() called on a connected manager starts no handshake, leaves
\* the manager connected and leaves its handle the same.
C6_ConnectWhenConnectedIsNoOp ==
  [][(last'.op = "connect:call" /\ WasValid(last'.i) /\ connected[last'.i]) =>
       /\ driver' = driver
       /\ connected'[last'.i]
       /\ client' = client]_vars

\* C7: two connect() calls on one manager never both start a handshake: at
\* most one call is suspended in a handshake at a time.
C7_OneHandshakeAtATime ==
  \A i \in Instances : WasValid(i) => pendingConnect[i] <= 1

\* C8: a write by the caller into a config that getConfig() returned, or
\* into an object nested in it, leaves the value of this.config (what later
\* getConfig() and connect() calls read) as it was.
C8_ReturnedConfigIsIndependent ==
  [][(/\ last'.op \in {"write", "writeNested"}
      /\ last'.ret = Str("returned")
      /\ WasValid(last'.i)) =>
       DeepValue(heap', config[last'.i]) = DeepValue(heap, config[last'.i])]_vars

\* C9: a write by the caller into the config object it passed to the
\* constructor, or into an object nested in it, leaves the value of
\* this.config (what later getConfig() and connect() calls read) as it was
\* at construction.
C9_ConfigIsSnapshot ==
  [][(/\ last'.op \in {"write", "writeNested"}
      /\ last'.ret = Str("passed")
      /\ WasValid(last'.i)
      /\ DeepValue(heap, config[last'.i]) = atConstruction[last'.i]) =>
       DeepValue(heap', config[last'.i]) = atConstruction[last'.i]]_vars

\* C10: getClient() and isConnected() change nothing of the manager, its
\* config or its driver, whether they return or throw.
C10_ReadsChangeNothing ==
  [][last'.op \in {"getClient", "isConnected"} =>
       UNCHANGED <<heap, driver, class, config, client, connected, pendingConnect,
                   pendingEnd, disconnected>>]_vars

\* getClient() has thrown while a connect() of the manager was suspended in
\* its handshake.
C10_Witness == last.op = "getClient" /\ ~last.ok /\ pendingConnect[last.i] > 0


\* C11: no manager exists for a config without its required field (region
\* for S3, host for FTP and SFTP): the constructor throws before it creates
\* a driver client.
C11_NoManagerForInvalidConfig ==
  \A i \in Instances :
    class[i] # "none" => atConstruction[i][RequiredField(class[i])] # <<"value", Undef>>

\* C12: when the driver rejects inside connect() or disconnect(), the call
\* throws, and what it throws is not the driver's own value but an error
\* with a kind and a backend that carries the driver's value as its cause.
C12_FailuresAreTyped ==
  (/\ last.op \in {"connect:settled", "disconnect:settled"}
   /\ last.cause # NoError
   /\ WasValid(last.i)) =>
    /\ ~last.ok
    /\ last.err # last.cause
    /\ {"kind", "backend", "cause"} \subseteq DOMAIN last.err
    /\ last.err.cause = last.cause

\* C13: connect() called on a manager whose latest connect() failed starts a
\* new handshake, and when the handshake of such a call resolves the call
\* returns, the manager is connected and getClient() returns its handle.
C13_RetryAfterFailure ==
  [][/\ (last'.op = "connect:call" /\ failed[last'.i]) =>
          /\ last'.ok
          /\ driver'[client[last'.i]].handshakes = driver[client[last'.i]].handshakes + 1
          /\ pendingConnect'[last'.i] = pendingConnect[last'.i] + 1
     /\ (last'.op = "connect:settled" /\ settled'.retry /\ last'.cause = NoError) =>
          /\ last'.ok
          /\ connected'[last'.i]
          /\ GetClientOutcome(last.i)'.ok
          /\ GetClientOutcome(last.i)'.ret = Handle(client'[last'.i])]_vars

\* A connect() called after a failed one has returned and the manager is
\* connected.
C13_Witness ==
  /\ last.op = "connect:settled"
  /\ last.ok
  /\ settled.retry
  /\ ~settled.stale
  /\ pendingConnect[last.i] = 0
  /\ connected[last.i]

\* The calls the class methods make and the steps that finish them.
MethodSteps ==
  {"connect:call", "connect:settled", "disconnect", "disconnect:call",
   "disconnect:settled", "getClient", "isConnected"}

\* C14: two managers never hold the same handle, and a connect(),
\* disconnect(), getClient() or isConnected() of one manager, and the
\* settling of one, leaves this.connected, this.client, the driver client
\* and the suspended calls of every other manager unchanged.
C14_ManagersAreIndependent ==
  [][/\ \A i, j \in Instances :
          (i # j /\ class'[i] # "none" /\ class'[j] # "none") => client'[i] # client'[j]
     /\ \A j \in Instances :
          (last'.op \in MethodSteps /\ j # last'.i /\ class[j] # "none") =>
            /\ connected'[j] = connected[j]
            /\ client'[j] = client[j]
            /\ driver'[client[j]] = driver[client[j]]
            /\ pendingConnect'[j] = pendingConnect[j]
            /\ pendingEnd'[j] = pendingEnd[j]
            /\ config'[j] = config[j]]_vars

\* Of two connected managers of one class, one has been disconnected and
\* the other is still connected.
C14_Witness ==
  \E i, j \in Instances :
    /\ i # j
    /\ class[i] = class[j]
    /\ class[i] # "none"
    /\ last.op \in {"disconnect", "disconnect:settled"}
    /\ last.i = i
    /\ last.before
    /\ ~connected[i]
    /\ connected[j]

\* C15: when a connect() settles after a disconnect() that was called while
\* its handshake was in flight has returned, the manager is not connected:
\* a returned disconnect() is followed by this.connected only through a
\* connect() called after it.
C15_DisconnectWinsOverPendingConnect ==
  [][(/\ last'.op = "connect:settled"
      /\ WasValid(last'.i)
      /\ settled'.stale) => ~connected'[last'.i]]_vars

\* C16: of overlapping disconnect() calls on an SFTP manager at most one
\* has client.end() in flight, and while a disconnect() is closing the
\* session getClient() does not return the handle.
C16_OverlappingDisconnectsCloseOnce ==
  \A i \in Instances :
    (WasValid(i) /\ class[i] = "SFTP") =>
      /\ pendingEnd[i] <= 1
      /\ pendingEnd[i] > 0 => ~GetClientOutcome(i).ok

\* C17: when client.end() of an SFTP disconnect() rejects, the call throws
\* the error and leaves this.connected and this.client as they were, so a
\* manager that was connected is still connected, getClient() still returns
\* its handle, and a disconnect() called next calls client.end() again.
C17_FailedCloseChangesNothing ==
  [][\A i \in Instances :
       /\ (last'.op = "disconnect:settled" /\ ~last'.ok /\ last'.i = i) =>
            /\ class[i] = "SFTP"
            /\ last'.err = last'.cause
            /\ last'.err \in DriverErrors
            /\ connected' = connected
            /\ client' = client
            /\ GetClientOutcome(i)' = GetClientOutcome(i)
            /\ connected[i] => GetClientOutcome(i)'.ret = Handle(client[i])
       /\ (/\ last.op = "disconnect:settled" /\ ~last.ok /\ last.i = i /\ connected[i]
           /\ last'.op \in {"disconnect", "disconnect:call"} /\ last'.i = i) =>
            /\ last'.op = "disconnect:call"
            /\ driver'[client[i]].teardowns = driver[client[i]].teardowns + 1
            /\ pendingEnd'[i] = pendingEnd[i] + 1]_vars

\* A connected SFTP manager whose one disconnect() failed is still
\* connected, and a second disconnect() has called client.end() again.
C17_Witness ==
  /\ last.op = "disconnect:call"
  /\ class[last.i] = "SFTP"
  /\ connected[last.i]
  /\ driver[client[last.i]].handshakes = 1
  /\ driver[client[last.i]].teardowns = 2
  /\ pendingEnd[last.i] = 1
  /\ GetClientOutcome(last.i).ok

\* C18: an S3 manager is connected from its construction until its first
\* disconnect() and not connected in every state after it: a disconnect()
\* leaves it not connected, and no step sets this.connected again.
C18_S3ConnectedUntilDisconnect ==
  [][\A i \in Instances :
       class'[i] = "S3" =>
         /\ connected'[i] <=> ~disconnected'[i]
         /\ (last'.op = "disconnect" /\ last'.i = i) => ~connected'[i]
         /\ (class[i] = "S3" /\ ~connected[i]) => ~connected'[i]
         /\ IsConnected(i) => last'.ret = Bool(~disconnected[i])]_vars

\* An S3 manager that has been disconnected twice answers isConnected()
\* with false.
C18_Witness ==
  /\ last.op = "isConnected"
  /\ last.ret = Bool(FALSE)
  /\ class[last.i] = "S3"
  /\ disconnected[last.i]
  /\ driver[client[last.i]].teardowns = 2

\* C19: the options connect() hands to the driver carry a default only for
\* a field the config does not have: FTP port is 21 and SFTP port is 22
\* exactly when config.port is undefined, FTP user is 'anonymous' exactly
\* when config.user is undefined, and a field the config has, port 0 and
\* the empty user included, is passed as it is.
C19_DefaultsOnlyForAbsentFields ==
  [][\A i \in Instances :
       (last'.op = "connect:call" /\ last'.i = i /\ WasValid(i)) =>
         LET c == heap[config[i]]
             o == driver'[client[i]].args
         IN /\ o.port = Deref(heap, IF c.port = Undef
                                     THEN (IF class[i] = "FTP" THEN Num(21) ELSE Num(22))
                                     ELSE c.port)
            /\ class[i] = "FTP" =>
                 o.user = Deref(heap, IF c.user = Undef THEN Str("anonymous") ELSE c.user)]_vars

====
